---- MODULE Spec2Model ----
(***************************************************************************)
(* Model of examples/video-stream/video_play.py: MediaFileStreamer (two    *)
(* decode contexts, two endless async generators, aclose) and entrypoint   *)
(* (publish, two push tasks, gather, wait_for_playout, finally).           *)
(*                                                                         *)
(* Scheduling is asyncio's: one thread, a task runs from one suspension    *)
(* point to the next without interruption.  Every action below is one such *)
(* uninterrupted run.  stream_video()/stream_audio() hold no await, so a   *)
(* whole resumption of the generator (decode, flag check, conversion,      *)
(* yield) belongs to the step of the push loop that pulls from it.         *)
(***************************************************************************)
EXTENDS Integers, Sequences, FiniteSets, TLC

VARIABLES
    main,            \* position of entrypoint
    mainExc,         \* an exception is pending while the finally block runs
    nunits,          \* decodable units of each stream of the media file
    container,       \* _video_container / _audio_container: unopened, open, closed
    cursor,          \* index of the next unit each decode context will read
    _stopped,        \* MediaFileStreamer._stopped
    gen,             \* stream_video() / stream_audio(): none, created, suspended, done, raised
    task,            \* video_task / audio_task
    frame,           \* the frame last yielded to each push loop
    av_sync,         \* the AVSynchronizer: unbound, open, closed
    queue,           \* frames accepted by push() and not yet released, per stream
    published,       \* tracks published so far
    logged,          \* log_exceptions reported an error of that push loop
    crashed,         \* the process was aborted by a read of a freed context
    shutdownLog,     \* shutdown steps invoked so far, in order, with their outcome
    playoutReturned, \* wait_for_playout() has returned
    discarded,       \* frames still buffered when the synchronizer was closed
    touchedAfterStop,\* the producer seeked/decoded its context after _stopped was set
    afterStop,       \* how the first resumption of each producer after the stop ended
    nyield,          \* frames yielded so far by each producer, modulo nunits
    lastUnit,        \* source unit of the frame last yielded
    wrapped,         \* the producer has re-seeked after exhausting the source
    decodeErr,       \* a unit of that stream failed to decode
    owed,            \* frames yielded to the push loop and not (yet) accepted by push()
    lastPushed,      \* source unit of the frame push() accepted last, -1 before the first
    spinning,        \* a producer loops without ever suspending: the event loop is blocked
    conv             \* the frame conversion under test (conversion specifications)

vars == <<main, mainExc, nunits, container, cursor, _stopped, gen, task, frame,
          av_sync, queue, published, logged, crashed, spinning, shutdownLog,
          playoutReturned, discarded, touchedAfterStop, afterStop, nyield,
          lastUnit, wrapped, decodeErr, owed, lastPushed, spinning, conv>>

streamerVars == <<container, cursor, _stopped, gen, frame>>
ghostVars == <<touchedAfterStop, afterStop, nyield, lastUnit, wrapped, decodeErr>>
pushVars == <<owed, lastPushed>>
Alive == ~crashed /\ ~spinning

----------------------------------------------------------------------------
(* Bounds *)

MaxUnits == 2      \* units per stream of the media file
QueueCap == 2      \* frames the synchronizer buffers per stream
MaxDim == 2        \* height and width of the video frames converted
MaxChannels == 2   \* channels of the audio frames converted
MaxSamples == 2    \* samples per channel of the audio frames converted

Streams == {"video", "audio"}
NoFrame == [kind |-> "none"]
NoConv == [kind |-> "none"]

----------------------------------------------------------------------------
(* FrameConverter: the conversions inside stream_video / stream_audio *)

ALPHA_FILL == 1    \* np.ones(...)
RGBA_CHANNELS == 4
SCALE == 32768
INT16_MIN == -32768
INT16_MAX == 32767

\* a buffer allocated with one channel too few
np_ones_rgb(h, w, c) == [i \in 1..h |-> [j \in 1..w |-> [k \in 1..(c - 1) |-> ALPHA_FILL]]]

\* np.ones((h, w, 4), dtype=np.uint8), line 63
np_ones(h, w, c) == [i \in 1..h |-> [j \in 1..w |-> [k \in 1..c |-> ALPHA_FILL]]]

\* frame_rgba[:, :, :3] = frame, line 66
assign_rgb(rgba, rgb) ==
    [i \in DOMAIN rgba |-> [j \in DOMAIN rgba[i] |-> [k \in DOMAIN rgba[i][j] |->
        IF k <= 3 THEN rgb[i][j][k] ELSE rgba[i][j][k]]]]

\* ndarray.tobytes() of a 3-dimensional uint8 array: C order, one byte each
tobytes3(arr) ==
    LET w == Len(arr[1])
        c == Len(arr[1][1])
    IN  [n \in 1..(Len(arr) * w * c) |->
            arr[((n - 1) \div (w * c)) + 1][(((n - 1) \div c) % w) + 1][((n - 1) % c) + 1]]

\* lines 62-72: rgb is av_frame.to_rgb().to_ndarray(), shape (h, w, 3)
video_frame(rgb) ==
    LET frame_rgba == assign_rgb(np_ones(Len(rgb), Len(rgb[1]), RGBA_CHANNELS), rgb)
    IN  [kind |-> "video", width |-> Len(rgb[1]), height |-> Len(rgb),
         type |-> "RGBA", data |-> tobytes3(frame_rgba)]

is_planar(fmt) == fmt \in {"fltp", "s16p"}
is_float(fmt) == fmt \in {"fltp", "flt"}

\* av_frame.to_ndarray(): a planar format gives shape (channels, samples), a
\* packed format one row of channels * samples interleaved values
to_ndarray(av) ==
    IF is_planar(av.format)
    THEN [ch \in 1..av.channels |-> [i \in 1..av.samples |-> av.data[ch][i]]]
    ELSE << [n \in 1..(av.samples * av.channels) |->
                av.data[((n - 1) % av.channels) + 1][((n - 1) \div av.channels) + 1]] >>

\* ndarray.T of a 2-dimensional array
transpose(a) == [i \in 1..Len(a[1]) |-> [j \in 1..Len(a) |-> a[j][i]]]

\* round toward zero
trunc(n, d) == IF n >= 0 THEN n \div d ELSE -((-n) \div d)
wrap16(v) == ((v - INT16_MIN) % (2 * SCALE)) + INT16_MIN
sat16(v) == IF v < INT16_MIN THEN INT16_MIN ELSE IF v > INT16_MAX THEN INT16_MAX ELSE v

\* (x * 32768).astype(np.int16) on one element, line 83.  A sample is the
\* fraction x[1]/x[2] (x[2] = 1 for an integer format); the float product is
\* exact and the cast rounds toward zero.  The cast of a float outside the int16 range is undefined in C: the
\* build keeps the low 16 bits of the 32-bit conversion, or clamps.  An int16
\* sample times 32768 is an int32 whose low 16 bits the cast keeps.
scale_cast(x, fmt, env) ==
    IF is_float(fmt)
    THEN LET t == trunc(x[1] * SCALE, x[2])
         IN  IF t >= INT16_MIN /\ t <= INT16_MAX THEN t
             ELSE IF env.ub = "wrap" THEN wrap16(t) ELSE sat16(t)
    ELSE wrap16(x[1] * SCALE)

\* ndarray.tobytes() of a 2-dimensional int16 array: C order, little endian
tobytes2(arr) ==
    LET c == Len(arr[1])
        u(v) == v % (2 * SCALE)
    IN  [n \in 1..(Len(arr) * c * 2) |->
            LET v == arr[((n - 1) \div (2 * c)) + 1][(((n - 1) \div 2) % c) + 1]
            IN  IF (n - 1) % 2 = 0 THEN u(v) % 256 ELSE u(v) \div 256]

\* lines 82-89.  With NumPy 2 an int16 array times the Python int 32768
\* raises OverflowError instead of promoting to int32.
audio_frame(av, env) ==
    IF ~is_float(av.format) /\ env.numpy2
    THEN [kind |-> "error"]
    ELSE LET t == transpose(to_ndarray(av))
             f == [i \in DOMAIN t |-> [j \in DOMAIN t[i] |->
                       scale_cast(t[i][j], av.format, env)]]
         IN  [kind |-> "audio", data |-> tobytes2(f),
              num_channels |-> Len(f[1]), samples_per_channel |-> Len(f)]

AudioEnvs == [ub : {"wrap", "saturate"}, numpy2 : BOOLEAN]
DefaultEnv == [ub |-> "wrap", numpy2 |-> FALSE]

----------------------------------------------------------------------------
(* The media file: unit i of each stream *)

VideoUnit(i) == << << <<10 * i, 10 * i + 1, 255>> >> >>   \* a 1x1 RGB picture
VideoSourceFrame(i) == video_frame(VideoUnit(i))
AudioUnit(i) == [format |-> "fltp", channels |-> 1, samples |-> 1,
                 data |-> << << <<i, 8>> >> >>]          \* one sample, i/8
AudioSourceFrame(i) == audio_frame(AudioUnit(i), DefaultEnv)
SourceFrame(s, i) == IF s = "video" THEN VideoSourceFrame(i) ELSE AudioSourceFrame(i)

----------------------------------------------------------------------------
(* MediaFileStreamer.stream_video / stream_audio *)

DecodeOutcomes == {"ok", "corrupt"}
\* What a read of a closed container does: the build raises, or aborts the
\* process, or the decode iterator still holds a frame of the packet it had
\* already decoded and hands it out without touching the container.
ClosedOutcomes == {"raise", "crash", "buffered"}

\* container.seek(0), line 57 / 77
seek(st, env) ==
    IF st.ctx = "closed"
    THEN [st EXCEPT !.res = IF env.cl = "crash" THEN "crash" ELSE "raise",
                    !.touched = TRUE]
    ELSE [st EXCEPT !.cursor = 0, !.touched = TRUE, !.res = "ok"]

\* a decode iterator that hands out a unit without moving past it
decode_next_dup(st, env) ==
    IF st.ctx = "closed" \/ env.dec = "corrupt"
    THEN [st EXCEPT !.res = "raise", !.touched = TRUE]
    ELSE IF st.cursor >= st.n
         THEN [st EXCEPT !.res = "exhausted", !.touched = TRUE]
         ELSE [st EXCEPT !.res = "frame", !.unit = st.cursor, !.touched = TRUE]

\* a decode iterator that swallows the error of a corrupt unit and hands the
\* unit out all the same
decode_next_swallow(st, env) ==
    IF st.ctx = "closed"
    THEN [st EXCEPT !.res = "raise", !.touched = TRUE]
    ELSE IF st.cursor >= st.n
         THEN [st EXCEPT !.res = "exhausted", !.touched = TRUE]
         ELSE [st EXCEPT !.res = "frame", !.unit = st.cursor,
                         !.cursor = st.cursor + 1, !.touched = TRUE,
                         !.corrupt = (env.dec = "corrupt")]

\* next() on container.decode(...), the head of the for loop, line 58 / 78
decode_next(st, env) ==
    IF st.ctx = "closed"
    THEN IF env.cl = "buffered" /\ st.cursor < st.n
         THEN [st EXCEPT !.res = "frame", !.unit = st.cursor, !.cursor = st.cursor + 1]
         ELSE [st EXCEPT !.res = IF env.cl = "crash" THEN "crash" ELSE "raise",
                         !.touched = TRUE]
    ELSE IF st.cursor >= st.n
         THEN [st EXCEPT !.res = "exhausted", !.touched = TRUE]
         ELSE IF env.dec = "corrupt"
              THEN [st EXCEPT !.res = "raise", !.touched = TRUE, !.corrupt = TRUE]
              ELSE [st EXCEPT !.res = "frame", !.unit = st.cursor,
                              !.cursor = st.cursor + 1, !.touched = TRUE]

RECURSIVE while_not_stopped(_, _), for_av_frame(_, _)

\* line 56 / 76: while not self._stopped: seek(0); for ...
while_not_stopped(st, env) ==
    IF st.stopped
    THEN [st EXCEPT !.res = "done"]
    ELSE LET sk == seek(st, env)
         IN  IF sk.res = "ok"
             THEN for_av_frame([sk EXCEPT !.wrapped = st.started, !.started = TRUE,
                                          !.seeked = TRUE], env)
             ELSE sk

\* a producer that ends when the source is exhausted instead of re-seeking
for_av_frame_once(st, env) ==
    LET d == decode_next(st, env)
    IN  CASE d.res = "frame" ->
                IF d.stopped THEN [d EXCEPT !.res = "done"] ELSE [d EXCEPT !.res = "yield"]
          [] d.res = "exhausted" -> [d EXCEPT !.res = "done"]
          [] OTHER -> d

\* lines 58-72 / 78-89: for av_frame in decode(): if stopped: break; yield.
\* A decode that is exhausted right after the seek of the same resumption
\* gave no frame: the generator holds no await and _stopped cannot change, so
\* the while loop repeats the same seek and empty decode for ever.
for_av_frame(st, env) ==
    LET d == decode_next(st, env)
    IN  CASE d.res = "frame" ->
                IF d.stopped
                THEN while_not_stopped(d, env)      \* break, back to line 56
                ELSE [d EXCEPT !.res = "yield"]
          [] d.res = "exhausted" ->
                IF d.seeked THEN [d EXCEPT !.res = "spin"] ELSE while_not_stopped(d, env)
          [] OTHER -> d

\* both producers reading the one video container
context_shared(s) == "video"

\* lines 57-58 / 77-78: stream_video works on _video_container, stream_audio
\* on _audio_container
context_of(s) == s

\* One resumption of the generator by __anext__, from where it is suspended
resume(s, env) ==
    LET c == context_of(s)
        st == [stopped |-> _stopped, ctx |-> container[c], cursor |-> cursor[c],
               n |-> nunits[c], res |-> "none", unit |-> 0, touched |-> FALSE,
               wrapped |-> FALSE, started |-> gen[s] = "suspended",
               seeked |-> FALSE, corrupt |-> FALSE]
    IN  IF gen[s] = "created" THEN while_not_stopped(st, env)
                              ELSE for_av_frame(st, env)

----------------------------------------------------------------------------
(* livekit.agents collaborators: utils.log_exceptions and AVSynchronizer *)

\* log_exceptions: an exception leaving the wrapped coroutine is logged and
\* then leaves the task, so that gather sees it
log_exceptions(raised) == [log |-> raised, state |-> IF raised THEN "failed" ELSE "done"]

\* push() returns once the synchronizer has room for the frame
push_accepts(sync, q) == sync = "open" /\ q < QueueCap

\* the pacing task releases one buffered frame to the transport
release_enabled(sync, q) == sync = "open" /\ q > 0

\* wait_for_playout() returns when nothing is buffered
playout_done(q) == \A s \in Streams : q[s] = 0

----------------------------------------------------------------------------
(* Initial state: entrypoint is about to construct the streamer (line 105) *)

BaseInit ==
    /\ main = "open"
    /\ mainExc = FALSE
    /\ container = [s \in Streams |-> "unopened"]
    /\ cursor = [s \in Streams |-> 0]
    /\ _stopped = FALSE
    /\ gen = [s \in Streams |-> "none"]
    /\ task = [s \in Streams |-> "none"]
    /\ frame = [s \in Streams |-> NoFrame]
    /\ av_sync = "unbound"
    /\ queue = [s \in Streams |-> 0]
    /\ published = [s \in Streams |-> FALSE]
    /\ logged = [s \in Streams |-> FALSE]
    /\ crashed = FALSE
    /\ shutdownLog = <<>>
    /\ playoutReturned = FALSE
    /\ discarded = 0
    /\ touchedAfterStop = [s \in Streams |-> FALSE]
    /\ afterStop = [s \in Streams |-> "none"]
    /\ nyield = [s \in Streams |-> 0]
    /\ lastUnit = [s \in Streams |-> 0]
    /\ wrapped = [s \in Streams |-> FALSE]
    /\ decodeErr = [s \in Streams |-> FALSE]
    /\ owed = [s \in Streams |-> 0]
    /\ lastPushed = [s \in Streams |-> -1]
    /\ spinning = FALSE

Init ==
    /\ BaseInit
    /\ nunits \in [Streams -> 0..MaxUnits]
    /\ conv = NoConv

----------------------------------------------------------------------------
(* entrypoint *)

\* line 105: MediaFileStreamer(media_path); av.open or a missing stream may raise
MediaFileStreamer_init ==
    /\ Alive
    /\ main = "open"
    /\ \E ok \in BOOLEAN :
         IF ok
         THEN /\ container' = [s \in Streams |-> "open"]
              /\ main' = "publish_video"
         ELSE /\ main' = "raised"
              /\ UNCHANGED container
    /\ UNCHANGED <<mainExc, nunits, cursor, _stopped, gen, task, frame, av_sync,
                   queue, published, logged, crashed, spinning, shutdownLog,
                   playoutReturned, discarded, ghostVars, pushVars, conv>>

\* the audio track never published
after_publish_video_only(pos) == "try"

\* lines 128-129, then line 149
after_publish(pos) == IF pos = "publish_video" THEN "publish_audio" ELSE "try"

\* lines 128-129: await publish_track(video), await publish_track(audio);
\* outside the try block, so a failure leaves entrypoint at once
publish_track ==
    /\ Alive
    /\ main \in {"publish_video", "publish_audio"}
    /\ \E ok \in BOOLEAN :
         IF ok
         THEN /\ published' = [published EXCEPT
                     ![IF main = "publish_video" THEN "video" ELSE "audio"] = TRUE]
              /\ main' = after_publish(main)
         ELSE /\ main' = "raised"
              /\ UNCHANGED published
    /\ UNCHANGED <<mainExc, nunits, streamerVars, task, av_sync, queue, logged,
                   crashed, spinning, shutdownLog, playoutReturned, discarded, ghostVars, pushVars, conv>>

\* lines 149-165: AVSynchronizer(...), the two generators, the two tasks, and
\* the suspension in gather
entrypoint_try ==
    /\ Alive
    /\ main = "try"
    /\ \E ok \in BOOLEAN :
         IF ok
         THEN /\ av_sync' = "open"
              /\ gen' = [s \in Streams |-> "created"]
              /\ task' = [s \in Streams |-> "created"]
              /\ main' = "gather"
              /\ UNCHANGED mainExc
         ELSE /\ main' = "finally"
              /\ mainExc' = TRUE
              /\ UNCHANGED <<av_sync, gen, task>>
    /\ UNCHANGED <<nunits, container, cursor, _stopped, frame, queue, published,
                   logged, crashed, spinning, shutdownLog, playoutReturned, discarded,
                   ghostVars, pushVars, conv>>

\* lines 165-166: gather raises the first exception of a task as soon as that
\* task has failed, and returns once both tasks are done; wait_for_playout
\* returns once the synchronizer holds no frame
entrypoint_await ==
    /\ Alive
    /\ main \in {"gather", "playout"}
    /\ IF main = "gather"
       THEN IF \E s \in Streams : task[s] = "failed"
            THEN main' = "finally" /\ mainExc' = TRUE /\ UNCHANGED playoutReturned
            ELSE /\ \A s \in Streams : task[s] = "done"
                 /\ main' = "playout"
                 /\ UNCHANGED <<mainExc, playoutReturned>>
       ELSE /\ playout_done(queue)
            /\ playoutReturned' = TRUE
            /\ main' = "finally"
            /\ UNCHANGED mainExc
    /\ UNCHANGED <<nunits, streamerVars, task, av_sync, queue, published, logged,
                   crashed, spinning, shutdownLog, discarded, ghostVars, pushVars, conv>>

----------------------------------------------------------------------------
(* MediaFileStreamer.aclose and the finally block *)

\* an aclose() that raises the flag only after both contexts are closed
aclose_steps_flag_last == <<"close_video", "close_audio", "set_stopped">>

\* lines 93-95, in program order
aclose_steps == <<"set_stopped", "close_video", "close_audio">>

\* the synchronizer closed first
finally_steps_swapped == <<"close_sync">> \o aclose_steps

\* lines 169-170: await streamer.aclose(); await av_sync.aclose()
finally_steps == aclose_steps \o <<"close_sync">>

\* the effect of one shutdown step that does not raise
shutdown_step(st, step) ==
    CASE step = "set_stopped" -> [st EXCEPT !.stopped = TRUE]
      [] step = "close_video" -> [st EXCEPT !.container["video"] = "closed"]
      [] step = "close_audio" -> [st EXCEPT !.container["audio"] = "closed"]
      [] step = "close_sync"  ->
            [st EXCEPT !.av_sync = "closed",
                       !.discarded = st.queue["video"] + st.queue["audio"],
                       !.queue = [s \in Streams |-> 0]]

\* Plain sequential statements: the first step that raises ends the block.
\* av_sync is an unbound local when AVSynchronizer(...) itself raised.
RECURSIVE run_steps(_, _, _)
run_steps(st, steps, fails) ==
    IF steps = <<>> THEN st
    ELSE LET step == Head(steps)
         IN  IF step = "close_sync" /\ st.av_sync = "unbound"
             THEN [st EXCEPT !.log = Append(@, <<step, "unbound">>), !.exc = TRUE]
             ELSE IF step \in fails
                  THEN [st EXCEPT !.log = Append(@, <<step, "raise">>), !.exc = TRUE]
                  ELSE run_steps([shutdown_step(st, step) EXCEPT
                                      !.log = Append(@, <<step, "ok">>)],
                                 Tail(steps), fails)

entrypoint_finally ==
    /\ Alive
    /\ main = "finally"
    /\ \E fails \in SUBSET {"close_video", "close_audio", "close_sync"} :
         LET st == run_steps([stopped |-> _stopped, container |-> container,
                              av_sync |-> av_sync, queue |-> queue,
                              discarded |-> discarded, log |-> shutdownLog,
                              exc |-> FALSE],
                             finally_steps, fails)
         IN  /\ _stopped' = st.stopped
             /\ container' = st.container
             /\ av_sync' = st.av_sync
             /\ queue' = st.queue
             /\ discarded' = st.discarded
             /\ shutdownLog' = st.log
             /\ main' = IF st.exc \/ mainExc THEN "raised" ELSE "done"
    /\ UNCHANGED <<mainExc, nunits, cursor, gen, task, frame, published, logged,
                   crashed, spinning, playoutReturned, ghostVars, pushVars, conv>>

----------------------------------------------------------------------------
(* _push_video_frames / _push_audio_frames *)

\* a loop that does not wait for push() before it pulls the next frame
can_pull_eager(t) == t \in {"created", "push", "sleep"}

\* lines 136-138: the loop pulls a frame when the task starts and when
\* sleep(0) has returned, that is after push() has returned
can_pull(t) == t \in {"created", "sleep"}

\* line 136 / 145: `async for frame in stream` pulls the next frame, at the
\* first step of the task and after every sleep(0)
push_frames_anext(s) ==
    /\ Alive
    /\ can_pull(task[s])
    /\ \E dec \in DecodeOutcomes, cl \in ClosedOutcomes :
         LET r == resume(s, [dec |-> dec, cl |-> cl])
             le == log_exceptions(r.res = "raise")
         IN  /\ cursor' = [cursor EXCEPT ![context_of(s)] = r.cursor]
             /\ crashed' = (r.res = "crash")
             /\ spinning' = (r.res = "spin")
             /\ gen' = [gen EXCEPT ![s] =
                          CASE r.res = "yield" -> "suspended"
                            [] r.res = "done" -> "done"
                            [] r.res = "raise" -> "raised"
                            [] OTHER -> @]
             /\ frame' = [frame EXCEPT ![s] =
                          IF r.res = "yield" THEN SourceFrame(s, r.unit) ELSE @]
             /\ task' = [task EXCEPT ![s] =
                          CASE r.res = "yield" -> "push"
                            [] r.res \in {"crash", "spin"} -> @
                            [] OTHER -> le.state]
             /\ logged' = [logged EXCEPT ![s] = @ \/ le.log]
             /\ touchedAfterStop' = [touchedAfterStop EXCEPT ![s] =
                          @ \/ (_stopped /\ r.touched)]
             /\ afterStop' = [afterStop EXCEPT ![s] =
                          IF _stopped /\ @ = "none" THEN r.res ELSE @]
             /\ nyield' = [nyield EXCEPT ![s] =
                          IF r.res = "yield" THEN (@ + 1) % nunits[context_of(s)] ELSE @]
             /\ lastUnit' = [lastUnit EXCEPT ![s] =
                          IF r.res = "yield" THEN r.unit ELSE @]
             /\ wrapped' = [wrapped EXCEPT ![s] = @ \/ r.wrapped]
             /\ decodeErr' = [decodeErr EXCEPT ![s] = @ \/ r.corrupt]
             /\ owed' = [owed EXCEPT ![s] = IF r.res = "yield" THEN @ + 1 ELSE @]
    /\ UNCHANGED <<main, mainExc, nunits, container, _stopped, av_sync, queue,
                   published, shutdownLog, playoutReturned, discarded,
                   lastPushed, conv>>

\* a loop that goes on to sleep(0) without handing the frame to push()
push_returns_skip(s) ==
    /\ Alive
    /\ task[s] = "push"
    /\ task' = [task EXCEPT ![s] = "sleep"]
    /\ UNCHANGED <<main, mainExc, nunits, streamerVars, av_sync, queue, published,
                   logged, crashed, spinning, shutdownLog, playoutReturned,
                   discarded, ghostVars, pushVars, conv>>

\* line 137 / 146: av_sync.push(frame) returns; the loop goes on to sleep(0)
push_returns(s) ==
    /\ Alive
    /\ task[s] = "push"
    /\ push_accepts(av_sync, queue[s])
    /\ queue' = [queue EXCEPT ![s] = @ + 1]
    /\ task' = [task EXCEPT ![s] = "sleep"]
    /\ owed' = [owed EXCEPT ![s] = @ - 1]
    /\ lastPushed' = [lastPushed EXCEPT ![s] = lastUnit[s]]
    /\ UNCHANGED <<main, mainExc, nunits, streamerVars, av_sync, published,
                   logged, crashed, spinning, shutdownLog, playoutReturned,
                   discarded, ghostVars, conv>>

\* line 137 / 146: av_sync.push(frame) raises; log_exceptions reports it
push_raises(s) ==
    /\ Alive
    /\ task[s] = "push"
    /\ LET le == log_exceptions(TRUE)
       IN  /\ task' = [task EXCEPT ![s] = le.state]
           /\ logged' = [logged EXCEPT ![s] = @ \/ le.log]
    /\ UNCHANGED <<main, mainExc, nunits, streamerVars, av_sync, queue, published,
                   crashed, spinning, shutdownLog, playoutReturned, discarded, ghostVars, pushVars, conv>>

\* the synchronizer's pacing releases one buffered frame to the transport
sync_release(s) ==
    /\ Alive
    /\ release_enabled(av_sync, queue[s])
    /\ queue' = [queue EXCEPT ![s] = @ - 1]
    /\ UNCHANGED <<main, mainExc, nunits, streamerVars, task, av_sync, published,
                   logged, crashed, spinning, shutdownLog, playoutReturned, discarded,
                   ghostVars, pushVars, conv>>

----------------------------------------------------------------------------

Next ==
    \/ MediaFileStreamer_init
    \/ publish_track
    \/ entrypoint_try
    \/ entrypoint_await
    \/ entrypoint_finally
    \/ \E s \in Streams : push_frames_anext(s)
    \/ \E s \in Streams : push_returns(s)
    \/ \E s \in Streams : push_raises(s)
    \/ \E s \in Streams : sync_release(s)

Spec == Init /\ [][Next]_vars

----------------------------------------------------------------------------
(* The conversions on their own: a decoded frame is drawn, then converted   *)
(* by the statements of stream_video (lines 62-72) / stream_audio (82-89).  *)

mainVars == <<main, mainExc, nunits, container, cursor, _stopped, gen, task,
              frame, av_sync, queue, published, logged, crashed, spinning, shutdownLog,
              playoutReturned, discarded, touchedAfterStop, afterStop, nyield,
              lastUnit, wrapped, decodeErr, owed, lastPushed, spinning>>

Pixels == {<<255, 0, 1>>, <<10, 20, 30>>, <<0, 255, 254>>}
Formats == {"fltp", "flt", "s16p", "s16"}
FloatSamples == {<<-1, 3>>, <<1, 1>>, <<4, 3>>}     \* -1/3, 1.0, 4/3
IntSamples == {<<INT16_MIN, 1>>, <<1, 1>>, <<INT16_MAX, 1>>}
SamplesOf(fmt) == IF is_float(fmt) THEN FloatSamples ELSE IntSamples

\* a decoded picture of h rows and w columns, as to_rgb().to_ndarray() gives it
InitVideo ==
    /\ BaseInit
    /\ nunits = [s \in Streams |-> 1]
    /\ \E h \in 1..MaxDim, w \in 1..MaxDim :
         \E v \in [1..h -> [1..w -> Pixels]] :
            conv = [kind |-> "video", av |-> v, out |-> NoFrame]

\* a decoded audio frame: its sample format, and sample i of channel ch
InitAudio ==
    /\ BaseInit
    /\ nunits = [s \in Streams |-> 1]
    /\ \E f \in Formats, c \in 1..MaxChannels, n \in 1..MaxSamples :
         \E d \in [1..c -> [1..n -> SamplesOf(f)]] :
            conv = [kind |-> "audio",
                    av |-> [format |-> f, channels |-> c, samples |-> n, data |-> d],
                    out |-> NoFrame]

stream_video_convert ==
    /\ conv.kind = "video"
    /\ conv.out = NoFrame
    /\ conv' = [conv EXCEPT !.out = video_frame(conv.av)]
    /\ UNCHANGED mainVars

stream_audio_convert ==
    /\ conv.kind = "audio"
    /\ conv.out = NoFrame
    /\ \E env \in AudioEnvs : conv' = [conv EXCEPT !.out = audio_frame(conv.av, env)]
    /\ UNCHANGED mainVars

NextVideo == stream_video_convert
NextAudio == stream_audio_convert

SpecVideo == InitVideo /\ [][NextVideo]_vars
SpecAudio == InitAudio /\ [][NextAudio]_vars

----------------------------------------------------------------------------
(* Properties *)

Terminated == main \in {"done", "raised"}
Invoked(step) ==
    \E i \in DOMAIN shutdownLog :
        shutdownLog[i][1] = step /\ shutdownLog[i][2] # "unbound"
Raised(step) ==
    \E i \in DOMAIN shutdownLog :
        shutdownLog[i][1] = step /\ shutdownLog[i][2] = "raise"

\* C1: once aclose() has been invoked (_stopped set, the context closed),
\* neither stream_video() nor stream_audio() seeks or decodes on its decode
\* context again.
C1_NoContextAccessAfterAclose ==
    \A s \in Streams : container[s] = "closed" => ~touchedAfterStop[s]

\* C2: a producer that is resumed after aclose() has been invoked (_stopped
\* set, the context closed) ends its iteration and yields no further frame.
C2_EndsIterationAfterAclose ==
    \A s \in Streams : container[s] = "closed" => afterStop[s] \in {"none", "done"}

\* C3: in the RGBA buffer of every converted video frame the 4th byte of each
\* pixel is 255 and the first three bytes are the decoded RGB values.
C3_AlphaOpaque ==
    (conv.kind = "video" /\ conv.out # NoFrame) =>
        \A i \in 1..Len(conv.av) : \A j \in 1..Len(conv.av[1]) :
            LET base == ((i - 1) * Len(conv.av[1]) + (j - 1)) * 4
            IN  /\ conv.out.data[base + 4] = 255
                /\ \A k \in 1..3 : conv.out.data[base + k] = conv.av[i][j][k]

\* the n-th little-endian signed 16-bit sample of a byte buffer
sample16(data, n) ==
    LET u == data[2 * n - 1] + 256 * data[2 * n]
    IN  IF u > INT16_MAX THEN u - 2 * SCALE ELSE u

\* C4: every emitted 16-bit sample is the source sample times 32768, saturated
\* to [-32768, 32767]; no sample wraps around modulo 2^16.
C4_ScaledSaturated ==
    (conv.kind = "audio" /\ conv.out.kind = "audio") =>
        \A ch \in 1..conv.av.channels : \A i \in 1..conv.av.samples :
            LET x == conv.av.data[ch][i]
            IN  sample16(conv.out.data, (i - 1) * conv.av.channels + ch)
                    = sat16(trunc(x[1] * SCALE, x[2]))

\* C5: the k-th frame a producer yields is the conversion of unit k mod N of
\* its stream: after unit N-1 comes unit 0 again, nothing skipped or repeated.
C5_Looping ==
    \A s \in Streams :
        frame[s] # NoFrame =>
            /\ lastUnit[s] = (nyield[s] + nunits[s] - 1) % nunits[s]
            /\ frame[s] = SourceFrame(s, lastUnit[s])

\* C5 witness: a producer has exhausted a source of two units, re-seeked, and
\* the frame now being pushed is unit 0 again.
C5_Witness ==
    \E s \in Streams :
        /\ nunits[s] = 2 /\ wrapped[s] /\ task[s] = "push"
        /\ lastUnit[s] = 0 /\ frame[s] = SourceFrame(s, 0)

\* C6: the decode contexts and the synchronizer are released only after
\* wait_for_playout() has returned, and no accepted frame is discarded.
C6_DrainBeforeRelease ==
    (av_sync = "closed" /\ \A s \in Streams : container[s] = "closed")
        => (playoutReturned /\ discarded = 0)

\* C7: when a push loop has failed, by the time entrypoint has ended the error
\* was logged and both streamer.aclose() and av_sync.aclose() were invoked.
C7_FaultIsolation ==
    (Terminated /\ \E s \in Streams : task[s] = "failed") =>
        /\ \A s \in Streams : task[s] = "failed" => logged[s]
        /\ Invoked("set_stopped")
        /\ Invoked("close_sync")

\* C8: when a shutdown step raised, the remaining shutdown steps were still
\* executed by the time entrypoint has ended.
C8_BestEffortShutdown ==
    (Terminated /\ \E step \in {"close_video", "close_audio", "close_sync"} : Raised(step)) =>
        \A step \in {"close_video", "close_audio", "close_sync"} : Invoked(step)

ShutdownRank(step) ==
    CASE step = "set_stopped" -> 1
      [] step \in {"close_video", "close_audio"} -> 2
      [] step = "close_sync" -> 3

\* C9: shutdown steps happen in the order stop flag, decode contexts,
\* synchronizer: the synchronizer is never closed before both contexts are,
\* and no context is closed before the flag is set.
C9_ShutdownOrder ==
    /\ \A i \in DOMAIN shutdownLog : \A j \in DOMAIN shutdownLog :
          i < j => ShutdownRank(shutdownLog[i][1]) <= ShutdownRank(shutdownLog[j][1])
    /\ (shutdownLog # <<>> => shutdownLog[1][1] = "set_stopped")
    /\ (av_sync = "closed" => \A s \in Streams : container[s] = "closed")
    /\ \A s \in Streams : container[s] = "closed" => _stopped

\* C9 witness: a run went through all of shutdown and closed the synchronizer.
C9_Witness ==
    /\ Terminated /\ av_sync = "closed" /\ Len(shutdownLog) = 4
    /\ \A s \in Streams : container[s] = "closed"

\* C10: the converted VideoFrame declares the decoded frame's width and height
\* and its buffer holds exactly width * height * 4 bytes.
C10_VideoFrameSize ==
    (conv.kind = "video" /\ conv.out # NoFrame) =>
        /\ conv.out.width = Len(conv.av[1])
        /\ conv.out.height = Len(conv.av)
        /\ Len(conv.out.data) = Len(conv.av[1]) * Len(conv.av) * 4

\* C10 witness: a frame that is wider than high has been converted.
C10_Witness ==
    /\ conv.kind = "video" /\ conv.out # NoFrame
    /\ Len(conv.av) = 1 /\ Len(conv.av[1]) = 2
    /\ conv.out.width = 2 /\ conv.out.height = 1 /\ Len(conv.out.data) = 8

\* C11: the converted AudioFrame declares the decoded frame's channel count c
\* and samples per channel s, its buffer holds exactly s * c * 2 bytes, and
\* sample i of channel ch is the (i * c + ch)-th 16-bit value of the buffer.
C11_AudioFrameShape ==
    (conv.kind = "audio" /\ conv.out.kind = "audio") =>
        /\ conv.out.num_channels = conv.av.channels
        /\ conv.out.samples_per_channel = conv.av.samples
        /\ Len(conv.out.data) = conv.av.samples * conv.av.channels * 2
        /\ \A ch \in 1..conv.av.channels : \A i \in 1..conv.av.samples :
              \E env \in AudioEnvs :
                 sample16(conv.out.data, (i - 1) * conv.av.channels + ch)
                    = scale_cast(conv.av.data[ch][i], conv.av.format, env)

\* C12: within each stream the synchronizer accepts frames in decode order
\* under every interleaving and every backpressure suspension: each accepted
\* frame is the one decoded last and the successor of the one accepted before
\* it (none reordered, none twice), and the loop decodes a further frame only
\* when every earlier one has been accepted (none skipped).
C12_PushInDecodeOrder ==
    [][\A s \in Streams :
          /\ queue'[s] > queue[s] =>
                /\ lastPushed'[s] = lastUnit[s]
                /\ lastPushed'[s] = (lastPushed[s] + 1) % nunits[s]
                /\ owed'[s] = 0
          /\ owed'[s] > owed[s] => owed[s] = 0]_vars

\* both loops have interleaved, the audio push has been held back by a full
\* queue, and the video loop has gone round its source and pushed unit 0 again
C12_Witness ==
    /\ wrapped["video"] /\ lastPushed["video"] = 0 /\ task["video"] = "sleep"
    /\ nunits["video"] = MaxUnits
    /\ task["audio"] = "push" /\ queue["audio"] = QueueCap /\ lastPushed["audio"] >= 0

\* C13: no push loop ever busy-spins: every step of a loop or of its producer
\* reaches a suspension point at which the other loop can be scheduled, for
\* every source.
C13_NeverBusySpins == ~spinning

\* C14: a decode error is neither swallowed nor retried: the step that meets it
\* leaves the producer raised and the push loop failed and reported, and from
\* then on that loop decodes nothing and pushes nothing.
C14_DecodeErrorPropagates ==
    [][\A s \in Streams :
          decodeErr'[s] =>
             /\ gen'[s] = "raised" /\ task'[s] = "failed" /\ logged'[s]
             /\ decodeErr[s] =>
                   /\ cursor'[s] = cursor[s]
                   /\ lastPushed'[s] = lastPushed[s]
                   /\ queue'[s] <= queue[s]]_vars

\* a loop that pushed frames, met a corrupt unit and ended, failed and reported
C14_Witness ==
    \E s \in Streams :
        /\ decodeErr[s] /\ lastPushed[s] >= 0
        /\ task[s] = "failed" /\ logged[s] /\ gen[s] = "raised"

\* C15: a push task exists, and a frame is pushed, only when both tracks are
\* published; when opening the source fails no track is published and no push
\* task is ever started.
C15_PublishBeforePush ==
    /\ (\E s \in Streams : task[s] # "none" \/ queue[s] > 0 \/ lastPushed[s] >= 0)
          => \A s \in Streams : published[s]
    /\ (\E s \in Streams : container[s] = "unopened")
          => \A s \in Streams :
                ~published[s] /\ task[s] = "none" /\ queue[s] = 0 /\ lastPushed[s] < 0

\* a frame of each stream has been accepted, both tracks being published
C15_Witness ==
    \A s \in Streams : published[s] /\ lastPushed[s] >= 0

\* the number of times a shutdown step was invoked
Invocations(step) ==
    Cardinality({i \in DOMAIN shutdownLog :
                    shutdownLog[i][1] = step /\ shutdownLog[i][2] # "unbound"})

\* C16: once the streamer is constructed, when entrypoint has terminated each
\* decode context has been closed exactly once.
C16_ClosedExactlyOnce ==
    (Terminated /\ \A s \in Streams : container[s] # "unopened") =>
        /\ Invocations("close_video") = 1
        /\ Invocations("close_audio") = 1

\* C17: aclose() sets the flag before it closes a context and does not suspend
\* in between: a context is closed only with the flag set, and the flag is
\* never seen set with a context still open unless a close() raised.
C17_FlagBeforeClose ==
    /\ \A s \in Streams : container[s] = "closed" => _stopped
    /\ \A i \in DOMAIN shutdownLog :
          shutdownLog[i][1] \in {"close_video", "close_audio"} =>
             \E j \in 1..(i - 1) : shutdownLog[j] = <<"set_stopped", "ok">>
    /\ _stopped =>
          \/ \A s \in Streams : container[s] = "closed"
          \/ Raised("close_video") \/ Raised("close_audio")

\* aclose() ran while a push loop was still alive
C17_Witness ==
    /\ _stopped /\ \A s \in Streams : container[s] = "closed"
    /\ \E s \in Streams : task[s] \in {"push", "sleep"}

\* C18: a decode cursor moves only in a step of its own producer, and that
\* step leaves the other stream's cursor and push loop as they were.
C18_IndependentCursors ==
    [][\A s \in Streams :
          cursor'[s] # cursor[s] =>
             /\ can_pull(task[s]) /\ ~can_pull(task'[s])
             /\ \A o \in Streams \ {s} :
                   cursor'[o] = cursor[o] /\ task'[o] = task[o]]_vars

\* both producers are under way at different positions of their sources
C18_Witness ==
    /\ cursor["video"] = MaxUnits /\ cursor["audio"] = 1
    /\ \A s \in Streams : task[s] \in {"push", "sleep"} /\ ~_stopped

\* C19 as stated: while no push loop has failed on a decode or push error the
\* stop flag is not set, no loop has ended and wait_for_playout() has not been
\* invoked.
C19_NoErrorNoStop ==
    (\A s \in Streams : task[s] # "failed") =>
        /\ ~_stopped
        /\ \A s \in Streams : task[s] # "done"
        /\ main # "playout" /\ ~playoutReturned

\* C19 amended: once the push tasks have been started, while no push loop has
\* failed the stop flag is not set, neither loop has ended, entrypoint is
\* still suspended in gather and wait_for_playout() has not been invoked.
C19_RunsUntilError ==
    (\A s \in Streams : task[s] \notin {"none", "failed"}) =>
        /\ ~_stopped
        /\ \A s \in Streams : task[s] # "done" /\ gen[s] # "done"
        /\ main = "gather" /\ ~playoutReturned /\ shutdownLog = <<>>

\* both loops have gone round their sources and are still running
C19_Witness ==
    /\ \A s \in Streams : wrapped[s] /\ task[s] \in {"push", "sleep"}
    /\ main = "gather" /\ ~_stopped

\* C20: each stream holds at most one frame that is decoded and not yet
\* accepted, it is the frame of the one push() the loop is suspended in, and a
\* loop that may decode holds none.
C20_BackpressureBound ==
    \A s \in Streams :
        /\ owed[s] \in {0, 1}
        /\ task[s] = "push" => owed[s] = 1 /\ frame[s] # NoFrame
        /\ can_pull(task[s]) => owed[s] = 0

\* both loops are suspended in push() on a full queue, one frame each
C20_Witness ==
    \A s \in Streams : task[s] = "push" /\ queue[s] = QueueCap /\ owed[s] = 1

====
